---- MODULE Spec2Model ----
(***************************************************************************)
(* Inventory management web application (src/app.py): a Flask application  *)
(* over six MongoDB collections.  Request handlers run concurrently; a     *)
(* handler is interrupted only between two storage operations, so every    *)
(* action below is one storage operation together with the local code that *)
(* leads to it and follows it.                                             *)
(***************************************************************************)
EXTENDS Integers, Sequences, FiniteSets, TLC

(* ------------------------------ bounds -------------------------------- *)
MaxProducts == 2
MaxWarehouses == 2
MaxSuppliers == 1
MaxPurchaseOrders == 2
MaxSalesOrders == 2

\* Concurrent request handlers (threads of the WSGI server).
Workers == {"t1", "t2"}

(* --------------------------- form values ------------------------------ *)
\* Text is a sequence of one-character strings.
Digit == {"0", "1", "2", "3", "4", "5", "6", "7", "8", "9"}

DigitVal(c) ==
    CASE c = "0" -> 0 [] c = "1" -> 1 [] c = "2" -> 2 [] c = "3" -> 3
      [] c = "4" -> 4 [] c = "5" -> 5 [] c = "6" -> 6 [] c = "7" -> 7
      [] c = "8" -> 8 [] c = "9" -> 9

RECURSIVE lstrip(_)
lstrip(s) == IF s # <<>> /\ Head(s) = " " THEN lstrip(Tail(s)) ELSE s

RECURSIVE rstrip(_)
rstrip(s) ==
    IF s # <<>> /\ s[Len(s)] = " " THEN rstrip(SubSeq(s, 1, Len(s) - 1)) ELSE s

\* str.strip()
strip(s) == rstrip(lstrip(s))

RECURSIVE DigitsVal(_, _)
DigitsVal(s, acc) ==
    IF s = <<>> THEN acc ELSE DigitsVal(Tail(s), 10 * acc + DigitVal(Head(s)))

AllDigits(s) == s # <<>> /\ \A i \in 1..Len(s) : s[i] \in Digit

\* int(text): surrounding blanks, one optional sign, decimal digits;
\* anything else raises ValueError (ok = FALSE).
int(text) ==
    LET t == strip(text)
        signed == t # <<>> /\ Head(t) \in {"+", "-"}
        body == IF signed THEN Tail(t) ELSE t
    IN  IF AllDigits(body)
        THEN [ok |-> TRUE,
              val |-> IF signed /\ Head(t) = "-"
                      THEN 0 - DigitsVal(body, 0) ELSE DigitsVal(body, 0)]
        ELSE [ok |-> FALSE, val |-> 0]

\* ObjectId(text): the id inputs are UnknownId (a well-formed object id that
\* no catalog document carries), BadId (text that is no object id, for which
\* ObjectId raises InvalidId) and the ids of inserted documents (1, 2, ...).
UnknownId == 9
BadId == -1
ObjectId(x) == [ok |-> x # BadId, oid |-> x]

\* Quantity texts a client submits with an order form.
QuantityTexts ==
    { <<"1">>, <<" ", "2">>, <<"0">>, <<"-", "1">>, <<"1", ".", "5">>, <<>> }

CustomerNames == { <<"c", "u", "s", "t">> }

(* ------------------------------ state --------------------------------- *)
VARIABLES
    users,            \* app.db.users
    products,         \* app.db.products
    suppliers,        \* app.db.suppliers
    warehouses,       \* app.db.warehouses
    stock_levels,     \* app.db.stock_levels
    purchase_orders,  \* app.db.purchase_orders
    sales_orders,     \* app.db.sales_orders
    session,          \* the browser session: the keys it holds
    req,              \* per worker: the request it is handling, and where
    response,         \* the latest response sent: target and flashed message
    credited,         \* history: per key, what the writes have added to it
    debited           \* history: per key, what the writes have taken from it

vars == <<users, products, suppliers, warehouses, stock_levels,
          purchase_orders, sales_orders, session, req, response,
          credited, debited>>

catalog == <<users, products, suppliers, warehouses>>
ledger == <<stock_levels, purchase_orders, sales_orders>>
history == <<credited, debited>>

Idle == [pc |-> "idle"]
NoFlash == "-"
Resp(to, msg) == [to |-> to, flash |-> msg]

\* A collection is the sequence of its documents in insertion order.
insert_one(coll, doc) == Append(coll, doc)

Ids(coll) == { coll[i]._id : i \in DOMAIN coll }

\* Index of the first document of coll that pred accepts, 0 when none does.
FirstIndex(coll, pred(_)) ==
    IF \E i \in DOMAIN coll : pred(coll[i])
    THEN CHOOSE i \in DOMAIN coll :
            pred(coll[i]) /\ \A j \in 1..(i - 1) : ~pred(coll[j])
    ELSE 0

(* --------------------------- session ---------------------------------- *)
\* The check left out: no request is sent to the login page.
no_login_required == FALSE

\* _require_login: TRUE when the request is redirected to the login page.
_require_login == "user" \notin session

generate_password_hash(password) == <<"hash", password>>
check_password_hash(hash, password) == hash = <<"hash", password>>

\* _ensure_default_admin(db) on a fresh database.
_ensure_default_admin(db_users) ==
    IF \E i \in DOMAIN db_users : db_users[i].username = "admin"
    THEN db_users
    ELSE insert_one(db_users,
            [username |-> "admin",
             password_hash |-> generate_password_hash("admin123"),
             role |-> "admin"])

LoginForms == [username : {"admin", "guest"}, password : {"admin123", "letmein"}]

login(form) ==
    LET i == FirstIndex(users, LAMBDA u : u.username = form.username)
    IN  /\ IF i # 0 /\ check_password_hash(users[i].password_hash, form.password)
           THEN /\ session' = session \cup {"user"}
                /\ response' = Resp("dashboard", "Logged in successfully.")
           ELSE /\ session' = session
                /\ response' = Resp("login.html", "Invalid username or password.")
        /\ UNCHANGED <<catalog, ledger, req, history>>

logout ==
    /\ session' = session \ {"user"}
    /\ response' = Resp("login", "Logged out.")
    /\ UNCHANGED <<catalog, ledger, req, history>>

(* --------------------------- stock ledger ----------------------------- *)
stock_filter(product_id, warehouse_id) ==
    [product_id |-> product_id, warehouse_id |-> warehouse_id]

\* The filter cut down to the warehouse: the product is not compared.
MatchesWarehouse(doc, filter) == doc.warehouse_id = filter.warehouse_id

Matches(doc, filter) ==
    doc.product_id = filter.product_id /\ doc.warehouse_id = filter.warehouse_id

\* stock_levels.find_one(filter): index of the first matching entry, or 0.
find_one(coll, filter) == FirstIndex(coll, LAMBDA d : Matches(d, filter))

\* stock_doc.get('quantity', 0) if stock_doc else 0
available_qty(coll, filter) ==
    LET i == find_one(coll, filter) IN IF i = 0 THEN 0 ELSE coll[i].quantity

\* update_one(filter, {'$inc': {'quantity': delta}}) without upsert: the
\* first matching entry is incremented in one step; no match, no change.
update_one_inc(coll, filter, delta) ==
    LET i == find_one(coll, filter)
    IN  IF i = 0 THEN coll
        ELSE [coll EXCEPT ![i].quantity = coll[i].quantity + delta]

\* The increment applied twice to the inserted document.
upsert_doc_twice(filter, delta) ==
    [product_id |-> filter.product_id, warehouse_id |-> filter.warehouse_id,
     quantity |-> delta + delta]

\* The document an upsert inserts when its filter matched nothing.
upsert_doc(filter, delta) ==
    [product_id |-> filter.product_id, warehouse_id |-> filter.warehouse_id,
     quantity |-> delta]

\* Sum of the quantities of the entries of coll that match filter.
RECURSIVE key_qty(_, _)
key_qty(coll, filter) ==
    IF coll = <<>> THEN 0
    ELSE (IF Matches(Head(coll), filter) THEN Head(coll).quantity ELSE 0)
         + key_qty(Tail(coll), filter)

\* The history of the writes to stock_levels: what a step adds to the
\* entries of a key counts as credited to the key, what it takes from them
\* as debited from it.  Neither variable is read by any handler.
NoHistory == [k \in {} |-> 0]

Audit(filter) ==
    LET delta == key_qty(stock_levels', filter) - key_qty(stock_levels, filter)
        sofar(h) == IF filter \in DOMAIN h THEN h[filter] ELSE 0
        put(h, v) == [k \in DOMAIN h \cup {filter} |->
                        IF k = filter THEN v ELSE h[k]]
    IN  /\ credited' = IF delta > 0 THEN put(credited, sofar(credited) + delta)
                       ELSE credited
        /\ debited' = IF delta < 0 THEN put(debited, sofar(debited) - delta)
                      ELSE debited

(* ------------------------- purchase orders ---------------------------- *)
\* The forms with the ids of the triples of targets (supplier, product,
\* warehouse) and every quantity text.
PurchaseFormsFor(targets) ==
    { [supplier_id |-> x[1], product_id |-> x[2], warehouse_id |-> x[3],
       quantity |-> q] : x \in targets, q \in QuantityTexts }

\* The comparison off by one: zero passes.
NotPositiveStrict(quantity_val) == quantity_val < 0

\* if quantity_val <= 0 (lines 286 and 341)
NotPositive(quantity_val) == quantity_val <= 0

po_doc(form, quantity_val) ==
    [supplier_id |-> ObjectId(form.supplier_id).oid,
     product_id |-> ObjectId(form.product_id).oid,
     warehouse_id |-> ObjectId(form.warehouse_id).oid,
     quantity |-> quantity_val,
     status |-> "RECEIVED"]

\* POST /purchase_orders up to and including purchase_orders.insert_one.
PurchaseOrdersPost(t, form) ==
    LET parsed == int(form.quantity) IN
    /\ req[t].pc = "idle"
    /\ IF _require_login
       THEN /\ response' = Resp("login", NoFlash)
            /\ UNCHANGED <<purchase_orders, req>>
       ELSE IF ~parsed.ok
       THEN /\ response' = Resp("purchase_orders", "Quantity must be an integer.")
            /\ UNCHANGED <<purchase_orders, req>>
       ELSE IF NotPositive(parsed.val)
       THEN /\ response' =
                 Resp("purchase_orders", "Quantity must be greater than zero.")
            /\ UNCHANGED <<purchase_orders, req>>
       ELSE IF \/ ~ObjectId(form.supplier_id).ok
               \/ ~ObjectId(form.product_id).ok
               \/ ~ObjectId(form.warehouse_id).ok
       THEN /\ response' = Resp("500", NoFlash)
            /\ UNCHANGED <<purchase_orders, req>>
       ELSE /\ Len(purchase_orders) < MaxPurchaseOrders
            /\ purchase_orders' =
                 insert_one(purchase_orders, po_doc(form, parsed.val))
            /\ req' = [req EXCEPT ![t] =
                 [pc |-> "po_update",
                  filter |-> stock_filter(ObjectId(form.product_id).oid,
                                          ObjectId(form.warehouse_id).oid),
                  quantity_val |-> parsed.val]]
            /\ UNCHANGED response
    /\ UNCHANGED <<catalog, stock_levels, sales_orders, session, history>>

PurchaseDone(t) ==
    /\ req' = [req EXCEPT ![t] = Idle]
    /\ response' =
         Resp("purchase_orders", "Purchase order recorded and stock updated.")

\* stock_levels.update_one(..., upsert=True): an entry that matches is
\* incremented in one step.  When none matches, the server goes on to insert
\* one; no unique index covers (product_id, warehouse_id), so nothing keeps
\* another upsert of the same key from running between the two.
PurchaseOrdersUpdate(t) ==
    /\ req[t].pc = "po_update"
    /\ IF find_one(stock_levels, req[t].filter) # 0
       THEN /\ stock_levels' =
                 update_one_inc(stock_levels, req[t].filter, req[t].quantity_val)
            /\ PurchaseDone(t)
       ELSE /\ req' = [req EXCEPT ![t].pc = "po_upsert"]
            /\ UNCHANGED <<stock_levels, response>>
    /\ UNCHANGED <<catalog, purchase_orders, sales_orders, session>>
    /\ Audit(req[t].filter)

PurchaseOrdersUpsert(t) ==
    /\ req[t].pc = "po_upsert"
    /\ stock_levels' =
         insert_one(stock_levels, upsert_doc(req[t].filter, req[t].quantity_val))
    /\ PurchaseDone(t)
    /\ UNCHANGED <<catalog, purchase_orders, sales_orders, session>>
    /\ Audit(req[t].filter)

(* --------------------------- sales orders ----------------------------- *)
\* The forms with the ids of the pairs of targets (product, warehouse).
SalesFormsFor(targets) ==
    { [product_id |-> x[1], warehouse_id |-> x[2], quantity |-> q,
       customer_name |-> c] :
         x \in targets, q \in QuantityTexts, c \in CustomerNames }

\* The comparison off by one: one unit more than is available passes.
InsufficientStockLax(quantity_val, available) == quantity_val > available + 1

\* if quantity_val > available_qty (line 352)
InsufficientStock(quantity_val, available) == quantity_val > available

\* The record written with a status still to be settled.
so_doc_pending(r) ==
    [product_id |-> r.filter.product_id,
     warehouse_id |-> r.filter.warehouse_id,
     quantity |-> r.quantity_val,
     customer_name |-> r.customer_name,
     status |-> "PENDING"]

so_doc(r) ==
    [product_id |-> r.filter.product_id,
     warehouse_id |-> r.filter.warehouse_id,
     quantity |-> r.quantity_val,
     customer_name |-> r.customer_name,
     status |-> "DISPATCHED"]

\* Sales requests that passed the stock check and have not yet written
\* their order record.
SalesAdmitted == { u \in Workers : req[u].pc = "so_insert" }

\* POST /sales_orders up to and including stock_levels.find_one.
SalesOrdersPost(t, form) ==
    LET parsed == int(form.quantity)
        filter == stock_filter(ObjectId(form.product_id).oid,
                               ObjectId(form.warehouse_id).oid)
    IN
    /\ req[t].pc = "idle"
    /\ IF _require_login
       THEN /\ response' = Resp("login", NoFlash)
            /\ UNCHANGED req
       ELSE IF ~parsed.ok
       THEN /\ response' = Resp("sales_orders", "Quantity must be an integer.")
            /\ UNCHANGED req
       ELSE IF NotPositive(parsed.val)
       THEN /\ response' =
                 Resp("sales_orders", "Quantity must be greater than zero.")
            /\ UNCHANGED req
       ELSE IF ~ObjectId(form.product_id).ok \/ ~ObjectId(form.warehouse_id).ok
       THEN /\ response' = Resp("500", NoFlash)
            /\ UNCHANGED req
       ELSE IF InsufficientStock(parsed.val, available_qty(stock_levels, filter))
       THEN /\ response' =
                 Resp("sales_orders", "Insufficient stock for this order.")
            /\ UNCHANGED req
       ELSE /\ Len(sales_orders) + Cardinality(SalesAdmitted) < MaxSalesOrders
            /\ req' = [req EXCEPT ![t] =
                 [pc |-> "so_insert",
                  filter |-> filter,
                  quantity_val |-> parsed.val,
                  customer_name |-> strip(form.customer_name),
                  available_qty |-> available_qty(stock_levels, filter)]]
            /\ UNCHANGED response
    /\ UNCHANGED <<catalog, ledger, session, history>>

\* sales_orders.insert_one(so_doc)
SalesOrdersInsert(t) ==
    /\ req[t].pc = "so_insert"
    /\ sales_orders' = insert_one(sales_orders, so_doc(req[t]))
    /\ req' = [req EXCEPT ![t].pc = "so_update"]
    /\ UNCHANGED <<catalog, stock_levels, purchase_orders, session, response, history>>

\* stock_levels.update_one(stock_filter, {'$inc': {'quantity': -quantity_val}})
SalesOrdersUpdate(t) ==
    /\ req[t].pc = "so_update"
    /\ stock_levels' =
         update_one_inc(stock_levels, req[t].filter, 0 - req[t].quantity_val)
    /\ req' = [req EXCEPT ![t] = Idle]
    /\ response' = Resp("sales_orders", "Sales order recorded and stock updated.")
    /\ UNCHANGED <<catalog, purchase_orders, sales_orders, session>>
    /\ Audit(req[t].filter)

(* ------------------------------ catalog ------------------------------- *)
RECURSIVE rstrip_zeros(_)
rstrip_zeros(s) ==
    IF s # <<>> /\ s[Len(s)] = "0"
    THEN rstrip_zeros(SubSeq(s, 1, Len(s) - 1)) ELSE s

\* float(text) for plain decimal text: surrounding blanks, one optional
\* sign, digits with at most one point; the value is kept as the integer
\* made of its digits and the number of digits after the point.
float(text) ==
    LET t == strip(text)
        signed == t # <<>> /\ Head(t) \in {"+", "-"}
        body == IF signed THEN Tail(t) ELSE t
        dot == FirstIndex(body, LAMBDA c : c = ".")
        whole == IF dot = 0 THEN body ELSE SubSeq(body, 1, dot - 1)
        frac == IF dot = 0 THEN <<>>
                ELSE rstrip_zeros(SubSeq(body, dot + 1, Len(body)))
        digits == whole \o frac
        wellformed ==
            /\ \A i \in 1..Len(digits) : digits[i] \in Digit
            /\ (whole # <<>> \/ (dot # 0 /\ Len(body) > 1))
        mag == DigitsVal(digits, 0)
    IN  IF wellformed
        THEN [ok |-> TRUE,
              val |-> [digits |-> IF signed /\ Head(t) = "-" THEN 0 - mag ELSE mag,
                       places |-> Len(frac)]]
        ELSE [ok |-> FALSE, val |-> [digits |-> 0, places |-> 0]]

NoText == <<>>

FormA == [sku |-> <<"A">>, name |-> <<"a">>, category |-> NoText,
          unit_price |-> <<"0">>, reorder_level |-> <<"2">>]
FormB == [sku |-> <<"B">>, name |-> <<"b">>, category |-> <<"T">>,
          unit_price |-> <<"9", ".", "5">>, reorder_level |-> <<"1">>]
FormC == [sku |-> <<" ", "C">>, name |-> <<"c">>, category |-> <<"T", " ">>,
          unit_price |-> <<"1">>, reorder_level |-> <<" ", "3">>]

ProductForms ==
    { FormA, FormB, FormC,
      [sku |-> <<" ">>, name |-> <<"a">>, category |-> NoText,
       unit_price |-> <<"0">>, reorder_level |-> <<"0">>],
      [sku |-> <<"A">>, name |-> NoText, category |-> NoText,
       unit_price |-> <<"0">>, reorder_level |-> <<"0">>],
      [sku |-> <<"A">>, name |-> <<"a">>, category |-> NoText,
       unit_price |-> <<"x">>, reorder_level |-> <<"0">>],
      [sku |-> <<"A">>, name |-> <<"a">>, category |-> NoText,
       unit_price |-> <<"0">>, reorder_level |-> <<"1", ".", "5">>] }

\* Requests that found no document with their SKU (code) and have not yet
\* inserted theirs.
AddingProduct == { u \in Workers : req[u].pc = "ap_insert" }
AddingWarehouse == { u \in Workers : req[u].pc = "aw_insert" }

\* The document add_product inserts for a form that passes its checks.
product_doc(form) ==
    [sku |-> strip(form.sku), name |-> strip(form.name),
     category |-> strip(form.category),
     unit_price |-> float(strip(form.unit_price)).val,
     reorder_level |-> int(strip(form.reorder_level)).val]

\* POST /products/add up to and including products.find_one({'sku': sku}).
AddProductPost(t, form) ==
    LET sku == strip(form.sku)
        name == strip(form.name)
        unit_price_val == float(strip(form.unit_price))
        reorder_level_val == int(strip(form.reorder_level))
        existing == FirstIndex(products, LAMBDA d : d.sku = sku)
    IN
    /\ req[t].pc = "idle"
    /\ IF _require_login
       THEN /\ response' = Resp("login", NoFlash)
            /\ UNCHANGED req
       ELSE IF sku = NoText \/ name = NoText
       THEN /\ response' = Resp("add_product.html", "SKU and Name are required.")
            /\ UNCHANGED req
       ELSE IF ~unit_price_val.ok \/ ~reorder_level_val.ok
       THEN /\ response' = Resp("add_product.html",
                 "Unit price must be a number and reorder level must be an integer.")
            /\ UNCHANGED req
       ELSE IF existing # 0
       THEN /\ response' = Resp("add_product.html",
                 "A product with this SKU already exists.")
            /\ UNCHANGED req
       ELSE /\ Len(products) + Cardinality(AddingProduct) < MaxProducts
            /\ req' = [req EXCEPT ![t] =
                 [pc |-> "ap_insert", doc |-> product_doc(form)]]
            /\ UNCHANGED response
    /\ UNCHANGED <<catalog, ledger, session, history>>

\* The document as stored: insert_one gives it a fresh _id.
Stored(coll, doc) == [f \in DOMAIN doc \cup {"_id"} |->
                         IF f = "_id" THEN Len(coll) + 1 ELSE doc[f]]

\* products.insert_one({...})
AddProductInsert(t) ==
    /\ req[t].pc = "ap_insert"
    /\ products' = insert_one(products, Stored(products, req[t].doc))
    /\ req' = [req EXCEPT ![t] = Idle]
    /\ response' = Resp("products", "Product added successfully.")
    /\ UNCHANGED <<users, suppliers, warehouses, ledger, session, history>>

FormS == [name |-> <<"S">>, contact_person |-> NoText, phone |-> NoText,
          email |-> NoText]

SupplierForms ==
    { FormS,
      [name |-> <<" ">>, contact_person |-> NoText, phone |-> NoText,
       email |-> NoText] }

supplier_doc(form) ==
    [name |-> strip(form.name), contact_person |-> strip(form.contact_person),
     phone |-> strip(form.phone), email |-> strip(form.email)]

\* POST /suppliers/add: one storage operation.
add_supplier(form) ==
    LET name == strip(form.name) IN
    /\ IF _require_login
       THEN /\ response' = Resp("login", NoFlash)
            /\ UNCHANGED suppliers
       ELSE IF name = NoText
       THEN /\ response' = Resp("add_supplier.html", "Supplier name is required.")
            /\ UNCHANGED suppliers
       ELSE /\ Len(suppliers) < MaxSuppliers
            /\ suppliers' =
                 insert_one(suppliers, Stored(suppliers, supplier_doc(form)))
            /\ response' = Resp("suppliers", "Supplier added successfully.")
    /\ UNCHANGED <<users, products, warehouses, ledger, session, req, history>>

FormM == [name |-> <<"M">>, location |-> NoText, code |-> <<"M">>]
FormN == [name |-> <<"N">>, location |-> NoText, code |-> <<"N", " ">>]

WarehouseForms ==
    { FormM, FormN,
      [name |-> <<"M">>, location |-> NoText, code |-> NoText],
      [name |-> NoText, location |-> NoText, code |-> <<"M">>] }

warehouse_doc(form) ==
    [name |-> strip(form.name), location |-> strip(form.location),
     code |-> strip(form.code)]

\* POST /warehouses/add up to and including warehouses.find_one({'code': code}).
AddWarehousePost(t, form) ==
    LET name == strip(form.name)
        code == strip(form.code)
        existing == FirstIndex(warehouses, LAMBDA d : d.code = code)
    IN
    /\ req[t].pc = "idle"
    /\ IF _require_login
       THEN /\ response' = Resp("login", NoFlash)
            /\ UNCHANGED req
       ELSE IF name = NoText \/ code = NoText
       THEN /\ response' = Resp("add_warehouse.html", "Name and code are required.")
            /\ UNCHANGED req
       ELSE IF existing # 0
       THEN /\ response' = Resp("add_warehouse.html",
                 "A warehouse with this code already exists.")
            /\ UNCHANGED req
       ELSE /\ Len(warehouses) + Cardinality(AddingWarehouse) < MaxWarehouses
            /\ req' = [req EXCEPT ![t] =
                 [pc |-> "aw_insert", doc |-> warehouse_doc(form)]]
            /\ UNCHANGED response
    /\ UNCHANGED <<catalog, ledger, session, history>>

\* warehouses.insert_one({...})
AddWarehouseInsert(t) ==
    /\ req[t].pc = "aw_insert"
    /\ warehouses' = insert_one(warehouses, Stored(warehouses, req[t].doc))
    /\ req' = [req EXCEPT ![t] = Idle]
    /\ response' = Resp("warehouses", "Warehouse added successfully.")
    /\ UNCHANGED <<users, products, suppliers, ledger, session, history>>

(* ------------------------------ reports ------------------------------- *)
\* stock_levels.aggregate([{'$match': {'product_id': id}}, {'$group': {...
\* 'total_qty': {'$sum': '$quantity'}}}]) read by the loop that keeps the
\* last row's total_qty: the sum over the matching entries, 0 without any.
RECURSIVE total_qty(_, _)
total_qty(coll, product_id) ==
    IF coll = <<>> THEN 0
    ELSE (IF Head(coll).product_id = product_id THEN Head(coll).quantity ELSE 0)
         + total_qty(Tail(coll), product_id)

\* The comparison off by one: a total equal to the level counts as low.
LowStockInclusive(total, reorder_level) == total <= reorder_level

\* if total_qty < reorder_level (lines 77 and 408)
LowStock(total, reorder_level) == total < reorder_level

low_stock_item(p, total) ==
    [sku |-> p.sku, name |-> p.name, reorder_level |-> p.reorder_level,
     available_qty |-> total]

\* One pass of the loop of low_stock_report (lines 390-414).
low_stock_pass(items, p, coll) ==
    LET total == total_qty(coll, p._id)
    IN  IF LowStock(total, p.reorder_level)
        THEN Append(items, low_stock_item(p, total))
        ELSE items

\* The items of the report when nothing changes the ledger while it runs.
RECURSIVE low_stock_items(_, _, _)
low_stock_items(items, prods, coll) ==
    IF prods = <<>> THEN items
    ELSE low_stock_items(low_stock_pass(items, Head(prods), coll), Tail(prods), coll)

\* GET /reports/low_stock up to and including products.find().
LowStockReportGet(t) ==
    /\ req[t].pc = "idle"
    /\ IF _require_login
       THEN /\ response' = Resp("login", NoFlash)
            /\ UNCHANGED req
       ELSE /\ req' = [req EXCEPT ![t] =
                 [pc |-> "ls_loop", products |-> products, i |-> 1,
                  low_stock_items |-> <<>>]]
            /\ UNCHANGED response
    /\ UNCHANGED <<catalog, ledger, session, history>>

\* The pass that stores its total in the ledger, as an entry of the product
\* in no warehouse.
LowStockReportAggregateStoring(t) ==
    /\ req[t].pc = "ls_loop"
    /\ req[t].i <= Len(req[t].products)
    /\ req' = [req EXCEPT
         ![t].low_stock_items =
             low_stock_pass(req[t].low_stock_items, req[t].products[req[t].i],
                            stock_levels),
         ![t].i = req[t].i + 1]
    /\ stock_levels' =
         insert_one(stock_levels,
             [product_id |-> req[t].products[req[t].i]._id,
              warehouse_id |-> UnknownId,
              quantity |-> total_qty(stock_levels, req[t].products[req[t].i]._id)])
    /\ UNCHANGED <<catalog, purchase_orders, sales_orders, session, response,
                   history>>

\* One stock_levels.aggregate of the loop.
LowStockReportAggregate(t) ==
    /\ req[t].pc = "ls_loop"
    /\ req[t].i <= Len(req[t].products)
    /\ req' = [req EXCEPT
         ![t].low_stock_items =
             low_stock_pass(req[t].low_stock_items, req[t].products[req[t].i],
                            stock_levels),
         ![t].i = req[t].i + 1]
    /\ UNCHANGED <<catalog, ledger, session, response, history>>

LowStockReportRender(t) ==
    /\ req[t].pc = "ls_loop"
    /\ req[t].i > Len(req[t].products)
    /\ req' = [req EXCEPT ![t] = Idle]
    /\ response' = Resp("low_stock.html", NoFlash)
    /\ UNCHANGED <<catalog, ledger, session, history>>

Uncategorized ==
    <<"U", "n", "c", "a", "t", "e", "g", "o", "r", "i", "z", "e", "d">>

\* The default dropped: an empty category is used as it is.
category_name_raw(p) == p.category

\* p.get('category') or 'Uncategorized'
category_name(p) == IF p.category = NoText THEN Uncategorized ELSE p.category

\* A dict as a function on its keys.
EmptyDict == [k \in {} |-> 0]
DictGet(d, k, default) == IF k \in DOMAIN d THEN d[k] ELSE default
DictPut(d, k, v) == [x \in DOMAIN d \cup {k} |-> IF x = k THEN v ELSE d[x]]

\* The pass of the dashboard with the comparison off by one.
dashboard_pass_inclusive(acc, p, coll) ==
    LET total == total_qty(coll, p._id)
        category == category_name(p)
    IN  [low_stock_count |->
             IF LowStockInclusive(total, p.reorder_level)
             THEN acc.low_stock_count + 1 ELSE acc.low_stock_count,
         category_totals |->
             DictPut(acc.category_totals, category,
                     DictGet(acc.category_totals, category, 0) + total)]

\* One pass of the loop of dashboard (lines 67-81).
dashboard_pass(acc, p, coll) ==
    LET total == total_qty(coll, p._id)
        category == category_name(p)
    IN  [low_stock_count |->
             IF LowStock(total, p.reorder_level)
             THEN acc.low_stock_count + 1 ELSE acc.low_stock_count,
         category_totals |->
             DictPut(acc.category_totals, category,
                     DictGet(acc.category_totals, category, 0) + total)]

DashboardStart == [low_stock_count |-> 0, category_totals |-> EmptyDict]

\* The dashboard figures when nothing changes the ledger while it runs.
RECURSIVE dashboard_figures(_, _, _)
dashboard_figures(acc, prods, coll) ==
    IF prods = <<>> THEN acc
    ELSE dashboard_figures(dashboard_pass(acc, Head(prods), coll), Tail(prods), coll)

\* GET /dashboard up to and including products.find(); the three
\* count_documents calls before it read the catalog only.
DashboardGet(t) ==
    /\ req[t].pc = "idle"
    /\ IF _require_login
       THEN /\ response' = Resp("login", NoFlash)
            /\ UNCHANGED req
       ELSE /\ req' = [req EXCEPT ![t] =
                 [pc |-> "db_loop",
                  products_count |-> Len(products),
                  suppliers_count |-> Len(suppliers),
                  warehouses_count |-> Len(warehouses),
                  products |-> products, i |-> 1, acc |-> DashboardStart]]
            /\ UNCHANGED response
    /\ UNCHANGED <<catalog, ledger, session, history>>

DashboardAggregate(t) ==
    /\ req[t].pc = "db_loop"
    /\ req[t].i <= Len(req[t].products)
    /\ req' = [req EXCEPT
         ![t].acc = dashboard_pass(req[t].acc, req[t].products[req[t].i],
                                   stock_levels),
         ![t].i = req[t].i + 1]
    /\ UNCHANGED <<catalog, ledger, session, response, history>>

DashboardRender(t) ==
    /\ req[t].pc = "db_loop"
    /\ req[t].i > Len(req[t].products)
    /\ req' = [req EXCEPT ![t] = Idle]
    /\ response' = Resp("dashboard.html", NoFlash)
    /\ UNCHANGED <<catalog, ledger, session, history>>

(* --------------------------- specification ---------------------------- *)
\* A storage operation raises (the database is unreachable): the handler
\* ends there with a server error; nothing undoes what it has written.
StorageFailure(t) ==
    /\ req[t].pc # "idle"
    /\ req' = [req EXCEPT ![t] = Idle]
    /\ response' = Resp("500", NoFlash)
    /\ UNCHANGED <<catalog, ledger, session, history>>

\* The documents a collection holds after the forms were added in turn.
RECURSIVE Inserted(_, _)
Inserted(coll, docs) ==
    IF docs = <<>> THEN coll
    ELSE Inserted(insert_one(coll, Stored(coll, Head(docs))), Tail(docs))

\* create_app() opens the database named by MONGO_URI: a catalog entered
\* earlier through the add routes, no stock and no orders yet, nobody
\* logged in.
Init ==
    /\ users = _ensure_default_admin(<<>>)
    /\ products =
         Inserted(<<>>, <<product_doc(FormA), product_doc(FormB), product_doc(FormC)>>)
    /\ suppliers = Inserted(<<>>, <<supplier_doc(FormS)>>)
    /\ warehouses = Inserted(<<>>, <<warehouse_doc(FormM), warehouse_doc(FormN)>>)
    /\ stock_levels = <<>>
    /\ purchase_orders = <<>>
    /\ sales_orders = <<>>
    /\ session = {}
    /\ req = [t \in Workers |-> Idle]
    /\ response = Resp("none", NoFlash)
    /\ credited = NoHistory
    /\ debited = NoHistory

Session ==
    \/ \E form \in LoginForms : login(form)
    \/ logout

\* Order forms of the order flows: the first supplier, product and
\* warehouse of the catalog, ids that no catalog document carries, and text
\* that is no object id.
PurchaseForms ==
    PurchaseFormsFor({ <<1, 1, 1>>, <<UnknownId, UnknownId, 1>>,
                       <<BadId, 1, 1>>, <<1, BadId, 1>>, <<1, 1, BadId>> })

SalesForms ==
    SalesFormsFor({ <<1, 1>>, <<UnknownId, 1>>, <<1, UnknownId>>,
                    <<BadId, 1>>, <<1, BadId>> })

\* Purchase and sales orders handled by all workers at once.
Next ==
    \/ Session
    \/ \E t \in Workers : \E form \in PurchaseForms : PurchaseOrdersPost(t, form)
    \/ \E t \in Workers : PurchaseOrdersUpdate(t)
    \/ \E t \in Workers : PurchaseOrdersUpsert(t)
    \/ \E t \in Workers : \E form \in SalesForms : SalesOrdersPost(t, form)
    \/ \E t \in Workers : SalesOrdersInsert(t)
    \/ \E t \in Workers : SalesOrdersUpdate(t)

Spec == Init /\ [][Next]_vars

\* The same handlers over storage that can fail.
NextFail == Next \/ \E t \in Workers : StorageFailure(t)

SpecFail == Init /\ [][NextFail]_vars

\* Order forms of the report flows: every catalog product, the first of
\* them in both warehouses.
ReportPurchaseForms ==
    PurchaseFormsFor({ <<1, 1, 1>>, <<1, 1, 2>>, <<1, 2, 1>>, <<1, 3, 1>> })

ReportSalesForms == SalesFormsFor({ <<1, 1>> })

ReportWorker == "t2"

\* Orders handled by all workers while one of them also runs the reports.
NextReports ==
    \/ Session
    \/ \E t \in Workers : \E form \in ReportPurchaseForms :
          PurchaseOrdersPost(t, form)
    \/ \E t \in Workers : PurchaseOrdersUpdate(t)
    \/ \E t \in Workers : PurchaseOrdersUpsert(t)
    \/ \E t \in Workers : \E form \in ReportSalesForms : SalesOrdersPost(t, form)
    \/ \E t \in Workers : SalesOrdersInsert(t)
    \/ \E t \in Workers : SalesOrdersUpdate(t)
    \/ LowStockReportGet(ReportWorker)
    \/ LowStockReportAggregate(ReportWorker)
    \/ LowStockReportRender(ReportWorker)
    \/ DashboardGet(ReportWorker)
    \/ DashboardAggregate(ReportWorker)
    \/ DashboardRender(ReportWorker)

SpecReports == Init /\ [][NextReports]_vars

\* create_app() on a database opened for the first time: the default
\* administrator and nothing else.
InitFresh ==
    /\ users = _ensure_default_admin(<<>>)
    /\ products = <<>>
    /\ suppliers = <<>>
    /\ warehouses = <<>>
    /\ stock_levels = <<>>
    /\ purchase_orders = <<>>
    /\ sales_orders = <<>>
    /\ session = {}
    /\ req = [t \in Workers |-> Idle]
    /\ response = Resp("none", NoFlash)
    /\ credited = NoHistory
    /\ debited = NoHistory

\* The catalog filled through the add routes by all workers at once.
NextCatalog ==
    \/ Session
    \/ \E t \in Workers : \E form \in ProductForms : AddProductPost(t, form)
    \/ \E t \in Workers : AddProductInsert(t)
    \/ \E form \in SupplierForms : add_supplier(form)
    \/ \E t \in Workers : \E form \in WarehouseForms : AddWarehousePost(t, form)
    \/ \E t \in Workers : AddWarehouseInsert(t)

SpecCatalog == InitFresh /\ [][NextCatalog]_vars

\* Forms of the flows over all routes: one product, supplier and warehouse
\* to enter, and orders that name the first of each.
RouteProductForms == { FormA }
RouteSupplierForms == { FormS }
RouteWarehouseForms == { FormM }
RoutePurchaseForms == PurchaseFormsFor({ <<1, 1, 1>> })
RouteSalesForms == SalesFormsFor({ <<1, 1>> })

\* Every route that submits something, requested by all workers at once.
NextRoutes ==
    \/ Session
    \/ \E t \in Workers : \E form \in RouteProductForms : AddProductPost(t, form)
    \/ \E t \in Workers : AddProductInsert(t)
    \/ \E form \in RouteSupplierForms : add_supplier(form)
    \/ \E t \in Workers : \E form \in RouteWarehouseForms :
          AddWarehousePost(t, form)
    \/ \E t \in Workers : AddWarehouseInsert(t)
    \/ \E t \in Workers : \E form \in RoutePurchaseForms :
          PurchaseOrdersPost(t, form)
    \/ \E t \in Workers : PurchaseOrdersUpdate(t)
    \/ \E t \in Workers : PurchaseOrdersUpsert(t)
    \/ \E t \in Workers : \E form \in RouteSalesForms : SalesOrdersPost(t, form)
    \/ \E t \in Workers : SalesOrdersInsert(t)
    \/ \E t \in Workers : SalesOrdersUpdate(t)

SpecRoutes == InitFresh /\ [][NextRoutes]_vars

(* ------------------------------ claims -------------------------------- *)
Quiescent == \A t \in Workers : req[t].pc = "idle"

KeyIds(coll) == Ids(coll) \cup {UnknownId}

\* Every (product, warehouse) pair an order can name.
Keys == { stock_filter(p, w) : p \in KeyIds(products), w \in KeyIds(warehouses) }

\* The entries of the ledger kept for a key.
EntriesOf(k) == { i \in DOMAIN stock_levels : Matches(stock_levels[i], k) }

\* The quantity the ledger answers for a key: that of the entry a lookup of
\* the key returns, the oldest one; 0 without an entry.
LedgerQuantity(k) ==
    IF EntriesOf(k) = {} THEN 0
    ELSE stock_levels[CHOOSE i \in EntriesOf(k) : \A j \in EntriesOf(k) : i <= j].quantity

\* Sum of f[x] over the x of S.
RECURSIVE SumOver(_, _)
SumOver(S, f) ==
    IF S = {} THEN 0
    ELSE LET x == CHOOSE y \in S : TRUE IN f[x] + SumOver(S \ {x}, f)

\* Sum of the quantities of the recorded orders of a key.
Recorded(orders, k) ==
    SumOver({ i \in DOMAIN orders : Matches(orders[i], k) },
            [i \in DOMAIN orders |-> orders[i].quantity])

\* Sum of the quantities of all the entries kept for a key.
EntriesTotal(k) ==
    SumOver(EntriesOf(k), [i \in DOMAIN stock_levels |-> stock_levels[i].quantity])

\* Sales requests past their stock check whose decrement is still to come.
SalesAccepted == { t \in Workers : req[t].pc \in {"so_insert", "so_update"} }

\* C1: the quantity of every stock entry is at least 0 in every reachable
\* state, whatever the interleaving of purchase and sales orders.
C1_QuantityNeverNegative ==
    \A i \in DOMAIN stock_levels : stock_levels[i].quantity >= 0

\* C2: of two sales orders of one key handled at once, each within the
\* available quantity but together beyond it, only one is accepted: no two
\* requests are both past the stock check, on the same reading of the same
\* key, asking together for more than that reading.
C2_OneOfTwoSalesAccepted ==
    \A t, u \in SalesAccepted :
        (/\ t # u
         /\ req[t].filter = req[u].filter
         /\ req[t].available_qty = req[u].available_qty)
        => req[t].quantity_val + req[u].quantity_val <= req[t].available_qty

\* C3: with no submission in progress, the ledger quantity of every key is
\* the sum of its recorded purchase quantities minus the sum of its recorded
\* sales quantities.
C3_LedgerEqualsOrders ==
    Quiescent =>
        \A k \in Keys :
            LedgerQuantity(k) =
                Recorded(purchase_orders, k) - Recorded(sales_orders, k)

\* What the handlers in progress have recorded and not yet applied.
PendingCredit(k) ==
    SumOver({ t \in Workers : /\ req[t].pc \in {"po_update", "po_upsert"}
                              /\ req[t].filter = k },
            [t \in Workers |-> IF req[t].pc = "idle" THEN 0 ELSE req[t].quantity_val])

PendingDebit(k) ==
    SumOver({ t \in Workers : req[t].pc = "so_update" /\ req[t].filter = k },
            [t \in Workers |-> IF req[t].pc = "idle" THEN 0 ELSE req[t].quantity_val])

\* C4: a submission that a storage failure aborts leaves no order record
\* without its ledger mutation and no ledger mutation without its record:
\* what the records of a key add up to differs from what its entries hold
\* only by the orders of handlers still running.
C4_RecordAndMutationTogether ==
    \A k \in Keys :
        (Recorded(purchase_orders, k) - Recorded(sales_orders, k)) - EntriesTotal(k)
            = PendingCredit(k) - PendingDebit(k)

\* Text that denotes a positive integer: digits, not all of them zero,
\* after an optional plus sign, blanks around it aside.
PositiveIntegerText(text) ==
    LET inner == { i \in DOMAIN text : text[i] # " " }
        lo == CHOOSE i \in inner : \A j \in inner : i <= j
        hi == CHOOSE i \in inner : \A j \in inner : j <= i
        from == IF text[lo] = "+" THEN lo + 1 ELSE lo
    IN  /\ inner # {}
        /\ from <= hi
        /\ \A i \in from..hi : text[i] \in Digit
        /\ \E i \in from..hi : text[i] # "0"

WellFormedIds(form) ==
    \A f \in DOMAIN form \cap {"supplier_id", "product_id", "warehouse_id"} :
        form[f] # BadId

\* C5: a sales order asking for more than the ledger quantity of its key
\* (0 without an entry) is rejected for insufficient stock; the handler's
\* step changes no stock entry and appends no order record.
ProperSalesForms ==
    { f \in SalesForms : PositiveIntegerText(f.quantity) /\ WellFormedIds(f) }

C5_InsufficientStockRejected ==
    [][\A t \in Workers : \A form \in ProperSalesForms :
         (/\ req[t].pc = "idle"
          /\ ~_require_login
          /\ int(form.quantity).val
               > LedgerQuantity(stock_filter(form.product_id, form.warehouse_id))
          /\ SalesOrdersPost(t, form))
         => (/\ UNCHANGED <<stock_levels, sales_orders, purchase_orders, req>>
             /\ response'.flash = "Insufficient stock for this order.")]_vars

\* A sales order was rejected for insufficient stock on a key that has stock.
C5_Witness ==
    /\ response.flash = "Insufficient stock for this order."
    /\ \E i \in DOMAIN stock_levels : stock_levels[i].quantity > 0

\* C6: a sales order for exactly the ledger quantity of its key is accepted,
\* its record is appended with status DISPATCHED and, once the handler has
\* decremented the ledger, the ledger quantity of the key is 0 (the case of
\* a purchase that raised the key above the quantity checked set aside).
C6_ExactSaleEmptiesKey ==
    [][\A t \in Workers :
         (/\ SalesOrdersUpdate(t)
          /\ req[t].quantity_val = req[t].available_qty
          /\ LedgerQuantity(req[t].filter) <= req[t].available_qty)
         => (/\ \E i \in DOMAIN sales_orders :
                   /\ Matches(sales_orders[i], req[t].filter)
                   /\ sales_orders[i].quantity = req[t].quantity_val
                   /\ sales_orders[i].status = "DISPATCHED"
             /\ available_qty(stock_levels', req[t].filter) = 0)]_vars

\* C7: every order record references existing catalog records only (an
\* order whose ids do not resolve is rejected before anything is written).
C7_OrdersReferenceCatalog ==
    /\ \A i \in DOMAIN purchase_orders :
          /\ purchase_orders[i].supplier_id \in Ids(suppliers)
          /\ purchase_orders[i].product_id \in Ids(products)
          /\ purchase_orders[i].warehouse_id \in Ids(warehouses)
    /\ \A i \in DOMAIN sales_orders :
          /\ sales_orders[i].product_id \in Ids(products)
          /\ sales_orders[i].warehouse_id \in Ids(warehouses)

\* C8: a purchase or sales order whose quantity is not a positive integer
\* is rejected with no state change: no order record is appended, no stock
\* entry is created or modified, and the handler ends at once (no step that
\* changes the catalog, the ledger or a handler's position is the handling
\* of such an order).
ImproperPurchaseForms ==
    { f \in PurchaseForms : ~PositiveIntegerText(f.quantity) }

ImproperSalesForms == { f \in SalesForms : ~PositiveIntegerText(f.quantity) }

C8_InvalidQuantityRejected ==
    [][(~UNCHANGED <<catalog, ledger, req>>) =>
         /\ \A t \in Workers : \A form \in ImproperPurchaseForms :
               ~PurchaseOrdersPost(t, form)
         /\ \A t \in Workers : \A form \in ImproperSalesForms :
               ~SalesOrdersPost(t, form)]_vars

\* An order was rejected for its quantity while orders were on record.
C8_Witness ==
    /\ response.flash \in { "Quantity must be greater than zero.",
                            "Quantity must be an integer." }
    /\ purchase_orders # <<>>
    /\ stock_levels # <<>>

\* The warehouses the ledger has entries for.
LedgerWarehouses == { stock_levels[i].warehouse_id : i \in DOMAIN stock_levels }

\* Sum, over all warehouses, of what the ledger holds of a product.
ProductTotal(product_id) ==
    SumOver(LedgerWarehouses,
            [w \in LedgerWarehouses |-> EntriesTotal(stock_filter(product_id, w))])

ReportLine(p) ==
    [sku |-> p.sku, name |-> p.name, reorder_level |-> p.reorder_level,
     available_qty |-> ProductTotal(p._id)]

LowProducts ==
    { i \in DOMAIN products :
        ProductTotal(products[i]._id) < products[i].reorder_level }

\* C9: for every ledger state the low-stock report lists a product if and
\* only if the sum of its ledger quantities over all warehouses (0 without
\* entries) is strictly below its reorder level, with that sum as available
\* quantity; a product whose total equals its reorder level is not listed.
C9_LowStockReport ==
    LET items == low_stock_items(<<>>, products, stock_levels) IN
    /\ \A i \in DOMAIN products :
          (\E j \in DOMAIN items : items[j] = ReportLine(products[i]))
          <=> i \in LowProducts
    /\ \A j \in DOMAIN items :
          \E i \in LowProducts : items[j] = ReportLine(products[i])
    /\ Len(items) = Cardinality(LowProducts)

\* The report has run over a ledger in which one product is listed and
\* another, whose two warehouses together hold exactly its reorder level,
\* is not.
C9_Witness ==
    /\ req[ReportWorker].pc = "ls_loop"
    /\ req[ReportWorker].i > Len(req[ReportWorker].products)
    /\ req[ReportWorker].products = products
    /\ req[ReportWorker].low_stock_items = low_stock_items(<<>>, products, stock_levels)
    /\ req[ReportWorker].low_stock_items # <<>>
    /\ \E i \in DOMAIN products :
          /\ ProductTotal(products[i]._id) = products[i].reorder_level
          /\ \A j \in DOMAIN req[ReportWorker].low_stock_items :
                req[ReportWorker].low_stock_items[j].sku # products[i].sku
          /\ Cardinality({ w \in LedgerWarehouses :
                EntriesTotal(stock_filter(products[i]._id, w)) > 0 }) = 2

\* The category a product counts under.
CategoryOf(p) == IF p.category = <<>> THEN Uncategorized ELSE p.category

Categories == { CategoryOf(products[i]) : i \in DOMAIN products }

ProductTotals == [i \in DOMAIN products |-> ProductTotal(products[i]._id)]

\* C10: for every ledger state the category totals map each category name
\* to the sum, over the products of the category (those without one under
\* "Uncategorized") and all warehouses, of the ledger quantities; together
\* they add up to the ledger quantities of all catalog products.
C10_CategoryTotals ==
    LET totals ==
          dashboard_figures(DashboardStart, products, stock_levels).category_totals
    IN
    /\ DOMAIN totals = Categories
    /\ \A c \in Categories :
          totals[c] =
              SumOver({ i \in DOMAIN products : CategoryOf(products[i]) = c },
                      ProductTotals)
    /\ SumOver(Categories, totals) = SumOver(DOMAIN products, ProductTotals)

\* The dashboard has run over a ledger that holds stock of two products of
\* one category, next to a product without category.
C10_Witness ==
    /\ req[ReportWorker].pc = "db_loop"
    /\ req[ReportWorker].i > Len(req[ReportWorker].products)
    /\ req[ReportWorker].acc =
          dashboard_figures(DashboardStart, products, stock_levels)
    /\ Uncategorized \in DOMAIN req[ReportWorker].acc.category_totals
    /\ \E i, j \in DOMAIN products :
          /\ i # j
          /\ products[i].category = products[j].category
          /\ products[i].category # <<>>
          /\ ProductTotal(products[i]._id) > 0
          /\ ProductTotal(products[j]._id) > 0
          /\ req[ReportWorker].acc.category_totals[products[i].category] =
                ProductTotal(products[i]._id) + ProductTotal(products[j]._id)

\* C11: in every reachable state the ledger holds at most one entry per
\* (product, warehouse) pair, also when two purchase orders of a pair
\* without entry are handled at once.
C11_OneEntryPerKey ==
    \A i, j \in DOMAIN stock_levels :
        (/\ stock_levels[i].product_id = stock_levels[j].product_id
         /\ stock_levels[i].warehouse_id = stock_levels[j].warehouse_id)
        => i = j

\* Purchase forms with a positive integer quantity.
PositivePurchaseForms ==
    { f \in PurchaseForms : PositiveIntegerText(f.quantity) }

\* The ids of the form are those of catalog records.
Resolving(form) ==
    /\ form.supplier_id \in Ids(suppliers)
    /\ form.product_id \in Ids(products)
    /\ form.warehouse_id \in Ids(warehouses)

\* C12: a purchase order with a positive integer quantity and resolving ids
\* is accepted whatever the ledger holds: its handler appends one purchase
\* order record with status RECEIVED, and the step that completes it raises
\* the ledger quantity of its key by exactly the order quantity (from 0
\* without an entry).
C12_PurchaseCreditsKey ==
    [][\A t \in Workers :
         /\ \A form \in PositivePurchaseForms :
               (/\ req[t].pc = "idle"
                /\ ~_require_login
                /\ Resolving(form)
                /\ PurchaseOrdersPost(t, form))
               => /\ purchase_orders' =
                       Append(purchase_orders,
                              [supplier_id |-> form.supplier_id,
                               product_id |-> form.product_id,
                               warehouse_id |-> form.warehouse_id,
                               quantity |-> int(form.quantity).val,
                               status |-> "RECEIVED"])
                  /\ req'[t].pc = "po_update"
         /\ (/\ req[t].pc \in {"po_update", "po_upsert"}
             /\ req'[t].pc = "idle"
             /\ PurchaseOrdersUpdate(t) \/ PurchaseOrdersUpsert(t))
            => \A k \in {req[t].filter} :
                   LedgerQuantity(k)' = LedgerQuantity(k) + req[t].quantity_val]_vars

\* C13: in every reachable state no two product records share a SKU and no
\* two warehouse records share a code, also when two add requests with the
\* same SKU (code) are handled at once.
C13_UniqueSkuAndCode ==
    /\ \A i, j \in DOMAIN products : products[i].sku = products[j].sku => i = j
    /\ \A i, j \in DOMAIN warehouses :
          warehouses[i].code = warehouses[j].code => i = j

\* One collection continues another: the documents of the first, unchanged
\* and in place, then possibly more.
Continues(after, before) ==
    /\ Len(before) <= Len(after)
    /\ \A i \in DOMAIN before : after[i] = before[i]

\* C16: the order collections are append-only and order records immutable:
\* every purchase order record has status RECEIVED and every sales order
\* record status DISPATCHED, and no step changes or removes a record that
\* is there.
C16_OrdersAppendOnly ==
    /\ [](/\ \A i \in DOMAIN purchase_orders :
                purchase_orders[i].status = "RECEIVED"
          /\ \A i \in DOMAIN sales_orders :
                sales_orders[i].status = "DISPATCHED")
    /\ [][/\ Continues(purchase_orders', purchase_orders)
          /\ Continues(sales_orders', sales_orders)]_vars

\* Both collections hold records, and orders were handled after the first
\* of each was written.
C16_Witness ==
    /\ Len(purchase_orders) = MaxPurchaseOrders
    /\ Len(sales_orders) >= 1
    /\ \E k \in DOMAIN debited : debited[k] >= 1
    /\ Quiescent

\* C14: while orders are handled next to the low-stock aggregation, no
\* quantity the aggregation reports for a product is negative.
C14_ReportedNeverNegative ==
    \A t \in Workers :
        req[t].pc = "ls_loop" =>
            \A j \in DOMAIN req[t].low_stock_items :
                req[t].low_stock_items[j].available_qty >= 0

\* A step of the low-stock report or of the dashboard aggregation.
ReportStep ==
    \E t \in Workers :
        \/ LowStockReportGet(t)
        \/ LowStockReportAggregate(t)
        \/ LowStockReportRender(t)
        \/ DashboardGet(t)
        \/ DashboardAggregate(t)
        \/ DashboardRender(t)

\* What a run has computed so far is what the present catalog and ledger
\* give for the products it has passed.
AgreesWithState(t) ==
    /\ req[t].pc = "ls_loop" =>
          /\ req[t].products = products
          /\ req[t].low_stock_items =
                low_stock_items(<<>>, SubSeq(products, 1, req[t].i - 1),
                                stock_levels)
    /\ req[t].pc = "db_loop" =>
          /\ req[t].products = products
          /\ req[t].acc =
                dashboard_figures(DashboardStart,
                                  SubSeq(products, 1, req[t].i - 1), stock_levels)

\* C15: the low-stock report and the dashboard aggregation are pure reads:
\* none of their steps changes the catalog, the ledger or an order
\* collection, and their result is determined by the state they read (as
\* long as no step writes, a run stays in agreement with the state, so that
\* two runs on one state give the same result).
C15_ReportsArePureReads ==
    [][/\ ReportStep => UNCHANGED <<catalog, ledger>>
       /\ \A t \in Workers :
             (UNCHANGED <<catalog, ledger>> /\ AgreesWithState(t))
             => AgreesWithState(t)']_vars

\* Both aggregations have run to their end over a ledger with stock: the
\* dashboard's figures are those of a state from which the report then ran.
C15_Witness ==
    /\ req[ReportWorker].pc = "ls_loop"
    /\ req[ReportWorker].i > Len(req[ReportWorker].products)
    /\ AgreesWithState(ReportWorker)
    /\ response.to = "dashboard.html"
    /\ req[ReportWorker].low_stock_items # <<>>
    /\ stock_levels # <<>>

\* C17: the order record is written before the ledger is mutated: in every
\* reachable state, the states in the middle of a handler and those a
\* failure between the two writes leaves included, what has been credited
\* to a key is at most the sum of its recorded purchase quantities and what
\* has been debited from it at most the sum of its recorded sales
\* quantities.
C17_LedgerWithinRecords ==
    /\ \A k \in DOMAIN credited : credited[k] <= Recorded(purchase_orders, k)
    /\ \A k \in DOMAIN debited : debited[k] <= Recorded(sales_orders, k)

\* A failure has left a purchase order on record without its credit, next
\* to one that was credited and a sale that was debited.
C17_Witness ==
    /\ Quiescent
    /\ \E k \in DOMAIN credited \cap DOMAIN debited :
          /\ credited[k] >= 1
          /\ credited[k] < Recorded(purchase_orders, k)
          /\ debited[k] = Recorded(sales_orders, k)
          /\ debited[k] >= 1

\* C18: on one catalog and ledger state, the low-stock count of the
\* dashboard is the number of items of the low-stock report.
C18_DashboardCountIsReportLength ==
    dashboard_figures(DashboardStart, products, stock_levels).low_stock_count
        = Len(low_stock_items(<<>>, products, stock_levels))

\* The dashboard has run over a ledger in which some products are low and
\* one holds exactly its reorder level.
C18_Witness ==
    /\ req[ReportWorker].pc = "db_loop"
    /\ req[ReportWorker].i > Len(req[ReportWorker].products)
    /\ AgreesWithState(ReportWorker)
    /\ req[ReportWorker].acc.low_stock_count =
          Len(low_stock_items(<<>>, products, stock_levels))
    /\ req[ReportWorker].acc.low_stock_count \in 1..(Len(products) - 1)
    /\ \E i \in DOMAIN products :
          total_qty(stock_levels, products[i]._id) = products[i].reorder_level

\* The entries of other keys than k are the same before and after the
\* step, and the step adds no entry to them.
OtherKeysUntouched(k) ==
    /\ Len(stock_levels') >= Len(stock_levels)
    /\ \A i \in DOMAIN stock_levels' :
          (\/ stock_levels'[i].product_id # k.product_id
           \/ stock_levels'[i].warehouse_id # k.warehouse_id)
          => /\ i \in DOMAIN stock_levels
             /\ stock_levels'[i] = stock_levels[i]
    /\ \A i \in DOMAIN stock_levels :
          (\/ stock_levels[i].product_id # k.product_id
           \/ stock_levels[i].warehouse_id # k.warehouse_id)
          => stock_levels'[i] = stock_levels[i]

\* C19: an accepted purchase or sales order changes the ledger quantity of
\* its own key only: every step of its handler leaves the entries of every
\* other key, the catalog and the order collection of the other order type
\* unchanged.
C19_OrderTouchesOwnKeyOnly ==
    [][\A t \in Workers :
         /\ (req[t].pc = "idle" /\ req'[t].pc = "po_update")
            => UNCHANGED <<catalog, stock_levels, sales_orders>>
         /\ (req[t].pc = "idle" /\ req'[t].pc = "so_insert")
            => UNCHANGED <<catalog, stock_levels, purchase_orders>>
         /\ (req[t].pc \in {"po_update", "po_upsert"} /\ req'[t] # req[t])
            => \A k \in {req[t].filter} :
                  /\ UNCHANGED <<catalog, sales_orders>>
                  /\ OtherKeysUntouched(k)
         /\ (req[t].pc \in {"so_insert", "so_update"} /\ req'[t] # req[t])
            => \A k \in {req[t].filter} :
                  /\ UNCHANGED <<catalog, purchase_orders>>
                  /\ OtherKeysUntouched(k)]_vars

\* Two keys hold stock and orders of both types were applied.
C19_Witness ==
    /\ Quiescent
    /\ \E i, j \in DOMAIN stock_levels :
          stock_levels[i].product_id # stock_levels[j].product_id
    /\ Len(purchase_orders) >= 2
    /\ \E k \in DOMAIN debited : debited[k] >= 1

\* A request to a route that adds to the catalog or submits an order.
Submission(t) ==
    \/ \E form \in RouteProductForms : AddProductPost(t, form)
    \/ \E form \in RouteSupplierForms : add_supplier(form)
    \/ \E form \in RouteWarehouseForms : AddWarehousePost(t, form)
    \/ \E form \in RoutePurchaseForms : PurchaseOrdersPost(t, form)
    \/ \E form \in RouteSalesForms : SalesOrdersPost(t, form)

\* C20: a request to a catalog-insert or order-submission route made
\* without a logged-in session is redirected to login and changes no
\* catalog record, stock entry or order record.
C20_NoSessionNoChange ==
    [][\A t \in Workers :
         (/\ req[t].pc = "idle"
          /\ "user" \notin session
          /\ Submission(t))
         => /\ response'.to = "login"
            /\ UNCHANGED <<catalog, ledger, req>>]_vars

\* After a logout, a request was sent to the login page while the catalog
\* and the ledger hold what was entered before.
C20_Witness ==
    /\ "user" \notin session
    /\ response = Resp("login", NoFlash)
    /\ products # <<>>
    /\ stock_levels # <<>>
    /\ purchase_orders # <<>>

====
